---- MODULE Spec2Model ----
(***************************************************************************)
(* State-machine model of the RawTIFF plugin of GeoTIFFTileSource:         *)
(*   - RawTiffWorkerPool (dispatch, reply correlation, error, teardown),   *)
(*   - the worker's onmessage protocol (tiff.worker.js),                   *)
(*   - logOnce and the warning channel.                                    *)
(* Every definition is translated from the JavaScript under src/.          *)
(***************************************************************************)
EXTENDS Integers, Sequences, FiniteSets, TLC

(***************************************************************************)
(* Bounds of the model.                                                    *)
(***************************************************************************)
\* workerPoolOptions.size: number of workers the pool constructor creates.
NumWorkers == 2
\* Number of pool.request calls explored over a run of Spec.
MaxReq == 2
\* Number of pools getWorkerPool may construct over a run of Spec.
MaxPools == 1

Workers == 1..NumWorkers

\* A message field that is not present on the object.
Absent == "absent"

Max(a, b) == IF a >= b THEN a ELSE b

(***************************************************************************)
(* Values travelling through the protocol.                                 *)
(***************************************************************************)
\* The ops the worker knows, and one it does not.
KnownOps == {"decodeRaster", "decodeAndRenderImageBitmap",
             "decodeAndPackGpuTextureSet", "rasterToGpuTextureSet"}
Ops == KnownOps \cup {"bogusOp"}

\* Values a decode may throw inside the worker: an Error with a message, an
\* Error with an empty message, a thrown string, a thrown empty value.
Thrown == { [type |-> "Error", text |-> "decode failed"],
            [type |-> "Error", text |-> ""],
            [type |-> "string", text |-> "bad tiff"],
            [type |-> "nullish", text |-> ""] }

\* errorToPlain(err) of the worker.
errorToPlain(err) ==
    IF err.type = "nullish" THEN "Unknown error"
    ELSE IF err.type = "string"
         THEN (IF err.text = "" THEN "Unknown error" ELSE err.text)
         ELSE (IF err.text # "" THEN err.text ELSE "{}")

\* __rt_errorToString(err) of the pool side, applied to a reply's error field.
rtErrorToString(err) ==
    IF err = Absent \/ err = "" THEN "Unknown error" ELSE err

\* The result payload each op builds on success.
ResultOf(op) ==
    CASE op = "decodeRaster"               -> "rasterPayload"
      [] op = "decodeAndRenderImageBitmap" -> "imageBitmap"
      [] op = "decodeAndPackGpuTextureSet" -> "rasterPayload+texSet"
      [] op = "rasterToGpuTextureSet"      -> "texSet"
      [] OTHER                             -> Absent

\* Warning codes the worker posts through workerWarn.
WorkerWarnCodes == {"renderChannels>4_to_RGBA_worker", "gpuPack_f16_clamp_worker"}

VARIABLES
    gen,             \* number of pools constructed so far (0: none yet)
    live,            \* shared.__rawTiffWorkerPool is a pool (not null)
    nextId,          \* this._nextId of the pool constructed last
    pending,         \* entry.pending per worker
    callbacks,       \* entry.callbacks per worker: id -> deferred (request index)
    reqs,            \* every deferred made by request(): its promise state
    inbox,           \* per worker: request messages received, handler not finished
    outbox,          \* per worker: messages posted to the pool, FIFO, not yet delivered
    delivered,       \* per worker: messages already delivered once
    failed,          \* per worker: its error event has fired
    consoleEchoOnce, \* __rt_consoleEchoOnce: the keys logOnce has seen
    console,         \* console output: number of lines written per key
    last,            \* the handler that last changed the bookkeeping, with its inputs
    raster,          \* the TiffRaster the page holds for its main-thread renders
    dec,             \* one decode: its inputs, then its outcome
    tex,             \* one raster-to-texture-set conversion: its inputs, then the set
    cfg,             \* one format resolution: its layers, then the merged format
    half,            \* one float32-to-half conversion: its input, then the 16 bits
    rgba,            \* one display render: its inputs, then the buffer returned
    got              \* the pool the last getWorkerPool() returned (0: none yet)

poolVars == <<gen, live, nextId, pending, callbacks, reqs, inbox, outbox,
              delivered, failed, consoleEchoOnce, console, last>>

convVars == <<raster, dec, tex>>

pureVars == <<cfg, half, rgba>>

vars == <<poolVars, convVars, pureVars, got>>

(***************************************************************************)
(* Messages.  Every message is a record with the same fields; a field the  *)
(* JavaScript object does not carry holds Absent (0 for the numeric id).   *)
(***************************************************************************)
ReplyOk(id, result) ==
    [kind |-> "reply", id |-> id, ok |-> TRUE, result |-> result,
     error |-> Absent, code |-> Absent]

ReplyErr(id, error) ==
    [kind |-> "reply", id |-> id, ok |-> FALSE, result |-> Absent,
     error |-> error, code |-> Absent]

\* workerWarn(code, message): { kind: "warn", code, message }.
WarnMsg(code) ==
    [kind |-> "warn", id |-> 0, ok |-> FALSE, result |-> Absent,
     error |-> Absent, code |-> code]

NoMsg ==
    [kind |-> Absent, id |-> 0, ok |-> FALSE, result |-> Absent,
     error |-> Absent, code |-> Absent]

Event(ev, w, msg, req) == [ev |-> ev, w |-> w, msg |-> msg, req |-> req]

(***************************************************************************)
(* logOnce(key, message, mode)                                             *)
(***************************************************************************)
LogKeys == WorkerWarnCodes \cup
           {"RawTiffWorker_warn", "renderChannels>4_to_RGBA", "gpuTextureSet_no_worker"}

\* A line is written at every call.
LogOnceLinesAlways(echo, key) == 1

\* The line logOnce writes for a key: one unless the key was seen before.
LogOnceLines(echo, key) == IF key \in echo THEN 0 ELSE 1

\* The key is not remembered.
LogOnceEchoForgets(echo, key) == echo

\* __rt_consoleEchoOnce.add(key)
LogOnceEcho(echo, key) == echo \cup {key}

LogOnceConsole(echo, con, key) ==
    [con EXCEPT ![key] = @ + LogOnceLines(echo, key)]

\* msg.code || "RawTiffWorker_warn"
WarnKey(code) == IF code = Absent \/ code = "" THEN "RawTiffWorker_warn" ELSE code

(***************************************************************************)
(* Deferreds and the correlation table.                                    *)
(***************************************************************************)
NewDeferred(g, id, w) ==
    [gen |-> g, id |-> id, w |-> w, state |-> "pending", settles |-> 0,
     value |-> Absent]

\* d.resolve(v) / d.reject(e): a promise keeps its first settlement.
Settle(d, st, val) ==
    [d EXCEPT !.settles = @ + 1,
              !.state = IF d.state = "pending" THEN st ELSE @,
              !.value = IF d.state = "pending" THEN val ELSE @]

EmptyMap == [i \in {} |-> 0]

\* Map.set(id, d)
MapSet(m, id, d) == (id :> d) @@ m

\* A variant of delete that removes nothing.
MapDeleteNothing(m, id) == m

\* Map.delete(id)
MapDelete(m, id) == [i \in (DOMAIN m) \ {id} |-> m[i]]

\* Map.has / truthiness of Map.get(id)
MapHas(m, id) == id \in DOMAIN m

(***************************************************************************)
(* RawTiffWorkerPool.request: the least-loaded scan                        *)
(*   let best = this.workers[0];                                           *)
(*   for (const w of this.workers) if (w.pending < best.pending) best = w; *)
(***************************************************************************)
\* Variant of the scan that compares with <=, so a later worker wins a tie.
RECURSIVE ScanBestLastTie(_, _, _)
ScanBestLastTie(p, i, best) ==
    IF i > NumWorkers THEN best
    ELSE ScanBestLastTie(p, i + 1, IF p[i] <= p[best] THEN i ELSE best)

RECURSIVE ScanBest(_, _, _)
ScanBest(p, i, best) ==
    IF i > NumWorkers THEN best
    ELSE ScanBest(p, i + 1, IF p[i] < p[best] THEN i ELSE best)

PickWorker(p) == ScanBest(p, 1, 1)

\* A variant of the catch block that leaves the count as it is.
PendingKeptAfterFailedPost(n) == n

\* pending after the catch block of request(): Math.max(0, best.pending - 1).
PendingAfterFailedPost(n) == Max(0, n - 1)

\* A variant of the id counter that does not advance.
NextIdReused(n) == n

\* this._nextId after `const id = this._nextId++`.
NextIdAfter(n) == n + 1

(***************************************************************************)
(* getWorkerPool(): constructs the shared pool when there is none.         *)
(* The constructor creates `size` workers, each entry                      *)
(* { worker, pending: 0, callbacks: new Map() }, and sets _nextId = 1.     *)
(***************************************************************************)
\* A variant of the test that never finds the shared pool.
SharedPoolIgnored(isLive) == FALSE

\* if (shared.__rawTiffWorkerPool) return shared.__rawTiffWorkerPool;
SharedPool(isLive) == isLive

\* getWorkerPool() with a shared pool: that pool is returned.
GetWorkerPoolShared ==
    /\ SharedPool(live)
    /\ got' = gen
    /\ last' = Event("getWorkerPoolShared", 0, NoMsg, 0)
    /\ UNCHANGED <<gen, live, nextId, pending, callbacks, reqs, inbox, outbox,
                   delivered, failed, consoleEchoOnce, console>>
    /\ UNCHANGED <<convVars, pureVars>>

GetWorkerPool ==
    /\ ~SharedPool(live)
    /\ gen' = gen + 1
    /\ got' = gen + 1
    /\ live' = TRUE
    /\ nextId' = 1
    /\ pending' = [w \in Workers |-> 0]
    /\ callbacks' = [w \in Workers |-> EmptyMap]
    /\ inbox' = [w \in Workers |-> {}]
    /\ outbox' = [w \in Workers |-> <<>>]
    /\ delivered' = [w \in Workers |-> {}]
    /\ failed' = [w \in Workers |-> FALSE]
    /\ last' = Event("getWorkerPool", 0, NoMsg, 0)
    /\ UNCHANGED <<convVars, pureVars>>
    /\ UNCHANGED <<reqs, consoleEchoOnce, console>>

(***************************************************************************)
(* RawTiffWorkerPool.request(op, payload, transfer) on the live pool.      *)
(* `threw`: best.worker.postMessage throws synchronously (DataCloneError). *)
(* `payload` is what the worker reads of the payload, see Payloads.        *)
(***************************************************************************)
RequestBody(op, payload, threw) ==
    /\ live
    /\ LET id == nextId
           best == PickWorker(pending)
           r == Len(reqs) + 1
           d == NewDeferred(gen, id, best)
           \* best.pending++; best.callbacks.set(id, d);
           p1 == [pending EXCEPT ![best] = @ + 1]
           c1 == [callbacks EXCEPT ![best] = MapSet(@, id, r)]
       IN  /\ nextId' = NextIdAfter(nextId)
           /\ IF threw
              THEN \* catch (e) { callbacks.delete(id); pending = max(0, pending-1); d.reject(e) }
                   /\ callbacks' = [c1 EXCEPT ![best] = MapDelete(@, id)]
                   /\ pending' = [p1 EXCEPT ![best] = PendingAfterFailedPost(@)]
                   /\ reqs' = Append(reqs, Settle(d, "rejected", "DataCloneError"))
                   /\ inbox' = inbox
              ELSE /\ callbacks' = c1
                   /\ pending' = p1
                   /\ reqs' = Append(reqs, d)
                   /\ inbox' = [inbox EXCEPT ![best] =
                                  @ \cup {[id |-> id, op |-> op, payload |-> payload]}]
           /\ last' = Event(IF threw THEN "requestPostThrew" ELSE "request", best, NoMsg, r)
    /\ UNCHANGED <<gen, live, outbox, delivered, failed, consoleEchoOnce, console>>

Request(op, payload, threw) ==
    /\ RequestBody(op, payload, threw)
    /\ UNCHANGED <<convVars, pureVars, got>>

(***************************************************************************)
(* request() on a pool object that terminate() has emptied (a caller kept  *)
(* the reference across an await): this.workers[0] is undefined, so        *)
(* `best.pending++` throws a TypeError after `_nextId++`; no promise is    *)
(* returned and no bookkeeping is touched.                                 *)
(***************************************************************************)
RequestOnTerminated ==
    /\ ~live
    /\ gen >= 1
    /\ nextId <= MaxReq
    /\ nextId' = nextId + 1
    /\ last' = Event("requestTypeError", 0, NoMsg, 0)
    /\ UNCHANGED <<convVars, pureVars, got>>
    /\ UNCHANGED <<gen, live, pending, callbacks, reqs, inbox, outbox, delivered,
                   failed, consoleEchoOnce, console>>

(***************************************************************************)
(* workerRef.onmessage of tiff.worker.js, from receipt to the reply.       *)
(*   outcome Returned:  the op's function returned and the reply was sent  *)
(*   outcome PostThrew: the op's function returned, posting the reply      *)
(*                      with its transfer list threw inside the try        *)
(*   outcome in Thrown: the op's function threw that value                 *)
(* An unknown op reaches `throw new Error("... Unknown worker op: ...")`.  *)
(***************************************************************************)
Returned == [type |-> "returned", text |-> ""]

PostThrew == [type |-> "postThrew", text |-> ""]

Outcomes == {Returned, PostThrew} \cup Thrown

UnknownOpError(op) == [type |-> "Error", text |-> "Unknown worker op"]

PostFailError == [type |-> "Error", text |-> "DataCloneError"]

\* The op is not looked at: an unknown op is answered like a known one.
WorkerReplyAnyOp(m, outcome) ==
    IF outcome = Returned
    THEN ReplyOk(m.id, ResultOf(m.op))
    ELSE IF outcome = PostThrew
         THEN ReplyErr(m.id, errorToPlain(PostFailError))
         ELSE ReplyErr(m.id, errorToPlain(outcome))

WorkerReply(m, outcome) ==
    IF m.op \notin KnownOps
    THEN ReplyErr(m.id, errorToPlain(UnknownOpError(m.op)))
    ELSE IF outcome = Returned
         THEN ReplyOk(m.id, ResultOf(m.op))
         ELSE IF outcome = PostThrew
              THEN ReplyErr(m.id, errorToPlain(PostFailError))
              ELSE ReplyErr(m.id, errorToPlain(outcome))

\* What the worker reads of a request's payload:
\*   nch:  length of the channel list asked for the display render
\*         (hints.formatResolved.image.rgbaChannels or hints.renderChannels; 0: none)
\*   mode: the mode rasterPayloadToTextureSet settles on for the raster
\*   over: some sample exceeds the half-float range after normalisation
Payload(nch, mode, over) == [nch |-> nch, mode |-> mode, over |-> over]

\* The op reaches rasterToRGBA8_ImageMode: always for the bitmap op, in image
\* mode for the two texture-set ops.
RendersImage(op, payload) ==
    \/ op = "decodeAndRenderImageBitmap"
    \/ op \in {"decodeAndPackGpuTextureSet", "rasterToGpuTextureSet"} /\ payload.mode = "image"

\* The op reaches packBandsAsData.
PacksData(op, payload) ==
    op \in {"decodeAndPackGpuTextureSet", "rasterToGpuTextureSet"} /\ payload.mode = "data"

\* The warning the op's function posts through workerWarn when it runs to its
\* end: rasterToRGBA8_ImageMode posts the truncation warning when more than 4
\* channels are asked for, packBandsAsData the clamp warning when a value was
\* clamped (once per half-float pack; one message stands for them).
WorkerWarnOf(op, payload) ==
    IF RendersImage(op, payload) /\ payload.nch > 4
    THEN "renderChannels>4_to_RGBA_worker"
    ELSE IF PacksData(op, payload) /\ payload.over
         THEN "gpuPack_f16_clamp_worker"
         ELSE Absent

\* The warnings a handler run may have posted before its reply: the op's
\* warning when the op ran to its end; when the op threw, it threw before or
\* after the warning.
WarnsPosted(m, outcome) ==
    IF m.op \notin KnownOps THEN {Absent}
    ELSE IF outcome \in Thrown
         THEN {Absent, WorkerWarnOf(m.op, m.payload)}
         ELSE {WorkerWarnOf(m.op, m.payload)}

WorkerHandle(w, m, outcome, warn) ==
    /\ live
    /\ m \in inbox[w]
    /\ warn \in WarnsPosted(m, outcome)
    /\ inbox' = [inbox EXCEPT ![w] = @ \ {m}]
    /\ outbox' = [outbox EXCEPT ![w] =
                    (IF warn = Absent THEN @ ELSE Append(@, WarnMsg(warn)))
                    \o <<WorkerReply(m, outcome)>>]
    /\ last' = Event("workerHandle", w, WorkerReply(m, outcome), 0)
    /\ UNCHANGED <<convVars, pureVars, got>>
    /\ UNCHANGED <<gen, live, nextId, pending, callbacks, reqs, delivered, failed,
                   consoleEchoOnce, console>>

(***************************************************************************)
(* w.onmessage of the pool constructor, for worker entry w and message msg.*)
(***************************************************************************)
\* Variant of the reply branch that leaves the entry in the map.
CallbacksKeptAfterReply(m, id) == m

\* entry.callbacks.delete(id)
CallbacksAfterReply(m, id) == MapDelete(m, id)

\* A variant of the reply branch that leaves the count as it is.
PendingKeptAfterReply(n) == n

\* entry.pending = Math.max(0, entry.pending - 1)
PendingAfterReply(n) == Max(0, n - 1)

\* A variant of the reply branch that calls neither resolve nor reject.
SettleByReplyNever(d, msg) == d

\* if (msg.ok) cb.resolve(msg.result); else cb.reject(new Error(__rt_errorToString(msg.error)))
SettleByReply(d, msg) ==
    IF msg.ok THEN Settle(d, "resolved", msg.result)
    ELSE Settle(d, "rejected", rtErrorToString(msg.error))

\* The key the warn branch hands to logOnce; 0 lines are written for a reply.
WarnBranchKey(msg) == WarnKey(msg.code)

HandleMessage(w, msg) ==
    IF msg.kind = "warn"
    THEN /\ consoleEchoOnce' = LogOnceEcho(consoleEchoOnce, WarnBranchKey(msg))
         /\ console' = LogOnceConsole(consoleEchoOnce, console, WarnBranchKey(msg))
         /\ UNCHANGED <<pending, callbacks, reqs>>
    ELSE IF ~MapHas(callbacks[w], msg.id)
         THEN UNCHANGED <<pending, callbacks, reqs, consoleEchoOnce, console>>
         ELSE /\ callbacks' = [callbacks EXCEPT ![w] = CallbacksAfterReply(@, msg.id)]
              /\ pending' = [pending EXCEPT ![w] = PendingAfterReply(@)]
              /\ reqs' = [reqs EXCEPT ![callbacks[w][msg.id]] = SettleByReply(@, msg)]
              /\ UNCHANGED <<consoleEchoOnce, console>>

\* The next message of worker w's channel is delivered to w.onmessage.
OnMessage(w) ==
    /\ live
    /\ outbox[w] # <<>>
    /\ LET msg == Head(outbox[w])
       IN  /\ HandleMessage(w, msg)
           /\ outbox' = [outbox EXCEPT ![w] = Tail(@)]
           /\ delivered' = [delivered EXCEPT ![w] = @ \cup {msg}]
           /\ last' = Event("message", w, msg, 0)
    /\ UNCHANGED <<convVars, pureVars, got>>
    /\ UNCHANGED <<gen, live, nextId, inbox, failed>>

\* A worker (createWorker is an option of the plugin) repeats a message it has
\* already sent: the same message reaches w.onmessage a second time.
DuplicateMessage(w, msg) ==
    /\ live
    /\ msg \in delivered[w]
    /\ HandleMessage(w, msg)
    /\ last' = IF <<pending', callbacks', reqs'>> = <<pending, callbacks, reqs>>
               THEN last ELSE Event("duplicate", w, msg, 0)
    /\ UNCHANGED <<convVars, pureVars, got>>
    /\ UNCHANGED <<gen, live, nextId, inbox, outbox, delivered, failed>>

(***************************************************************************)
(* w.onerror of the pool constructor.                                      *)
(***************************************************************************)
\* for (const cb of entry.callbacks.values()) cb.reject(...)
RejectAll(rs, m) ==
    [r \in DOMAIN rs |->
        IF \E i \in DOMAIN m : m[i] = r
        THEN Settle(rs[r], "rejected", "worker error")
        ELSE rs[r]]

OnError(w) ==
    /\ live
    /\ reqs' = RejectAll(reqs, callbacks[w])
    /\ callbacks' = [callbacks EXCEPT ![w] = EmptyMap]
    /\ pending' = [pending EXCEPT ![w] = 0]
    /\ failed' = [failed EXCEPT ![w] = TRUE]
    /\ last' = IF <<pending', callbacks', reqs', failed'>> = <<pending, callbacks, reqs, failed>>
               THEN last ELSE Event("error", w, NoMsg, 0)
    /\ UNCHANGED <<convVars, pureVars, got>>
    /\ UNCHANGED <<gen, live, nextId, inbox, outbox, delivered, consoleEchoOnce,
                   console>>

(***************************************************************************)
(* api.terminateWorkerPool() -> RawTiffWorkerPool.terminate():             *)
(*   for each entry: worker.terminate(); callbacks.clear(); pending = 0;   *)
(*   workers.length = 0;  then shared.__rawTiffWorkerPool = null.          *)
(* A terminated worker handles and posts nothing more.                     *)
(***************************************************************************)
\* What terminate() does to the deferreds held in an entry's callbacks map:
\* callbacks.clear() drops them without calling resolve or reject.
TerminateDeferreds(rs, cbs) == rs

TerminateWorkerPool ==
    /\ live
    /\ live' = FALSE
    /\ reqs' = TerminateDeferreds(reqs, callbacks)
    /\ callbacks' = [w \in Workers |-> EmptyMap]
    /\ pending' = [w \in Workers |-> 0]
    /\ inbox' = [w \in Workers |-> {}]
    /\ outbox' = [w \in Workers |-> <<>>]
    /\ delivered' = [w \in Workers |-> {}]
    /\ last' = Event("terminate", 0, NoMsg, 0)
    /\ UNCHANGED <<convVars, pureVars, got>>
    /\ UNCHANGED <<gen, nextId, failed, consoleEchoOnce, console>>

(***************************************************************************)
(* rasterToRGBA8(raster) of the plugin: the main-thread display render.    *)
(* A raster carries its photometric interpretation, whether it has a       *)
(* colour map, and hints.renderChannels (<<>>: the hint is not set).       *)
(***************************************************************************)
\* Longest channel list a page asks a render for.
MaxChannels == 6

\* detached: the buffers of raster.bands were transferred to a worker.
Raster(pi, map, rch) ==
    [made |-> TRUE, photometric |-> pi, colorMap |-> map, rch |-> rch,
     detached |-> FALSE]

NoRaster ==
    [made |-> FALSE, photometric |-> "none", colorMap |-> FALSE, rch |-> <<>>,
     detached |-> FALSE]

\* [0, 1, ..., n-1]
FirstBands(n) == [i \in 1..n |-> i - 1]

\* The palette and the two grey branches return before channels are selected.
ReturnsBeforeChannels(r) ==
    \/ r.photometric = "Palette" /\ r.colorMap
    \/ r.photometric \in {"WhiteIsZero", "BlackIsZero"}

\* renderChannels || ([0,1,2] or [0]): the list the render selects.
SelectedChannels(r) ==
    IF r.rch # <<>> THEN r.rch
    ELSE IF r.photometric = "RGB" THEN FirstBands(3) ELSE FirstBands(1)

\* channels.splice(4) on the array the hints hold.
Splice4(ch) == IF Len(ch) > 4 THEN SubSeq(ch, 1, 4) ELSE ch

\* The page gets a raster (from a decode, or built by the caller).
MakeRaster(r) ==
    /\ raster' = r
    /\ last' = Event("raster", 0, NoMsg, Len(r.rch))
    /\ UNCHANGED <<gen, live, nextId, pending, callbacks, reqs, inbox, outbox,
                   delivered, failed, consoleEchoOnce, console, dec, tex, pureVars, got>>

RasterToRGBA8 ==
    /\ raster.made
    /\ IF ReturnsBeforeChannels(raster) \/ Len(SelectedChannels(raster)) <= 4
       THEN UNCHANGED <<raster, consoleEchoOnce, console>>
       ELSE /\ consoleEchoOnce' = LogOnceEcho(consoleEchoOnce, "renderChannels>4_to_RGBA")
            /\ console' = LogOnceConsole(consoleEchoOnce, console, "renderChannels>4_to_RGBA")
            /\ raster' = [raster EXCEPT !.rch = Splice4(SelectedChannels(raster))]
    /\ last' = Event("rasterToRGBA8", 0, NoMsg, Len(raster.rch))
    /\ UNCHANGED <<gen, live, nextId, pending, callbacks, reqs, inbox, outbox,
                   delivered, failed, dec, tex, pureVars, got>>

(***************************************************************************)
(* __rt_tiffRasterToGpuTextureSet(tile, raster) with a pool: the buffers   *)
(* of raster.bands are the transfer list of the request, so they are       *)
(* detached on the page once the message is posted; the reply carries the  *)
(* packs only.  postMessage throws a DataCloneError for a transfer list    *)
(* that holds a detached buffer.                                           *)
(***************************************************************************)
\* raster.bands after pool.request(op, payload, transfers) was called.
DetachedAfterTransfer(r) == TRUE

\* postMessage(message, transfers) throws: a buffer of the list is detached.
TransferThrows(r) == r.detached

TiffRasterToGpuTextureSet ==
    /\ raster.made
    /\ RequestBody("rasterToGpuTextureSet", Payload(0, "data", FALSE), TransferThrows(raster))
    /\ raster' = [raster EXCEPT !.detached = DetachedAfterTransfer(raster)]
    /\ UNCHANGED <<dec, tex, pureVars, got>>

(***************************************************************************)
(* Image selection of the two decodes: decodeRasterFromArrayBuffer of the  *)
(* worker and decodeRawTiffMain of the plugin.                             *)
(***************************************************************************)
\* Largest number of images in a container.
MaxCount == 3

\* hints.imageIndex: not set, not a number (null, "1"), NaN, Infinity, an integer.
Undefined == [type |-> "undefined", val |-> 0]
NotNumber == [type |-> "string", val |-> 0]
NaNIndex == [type |-> "NaN", val |-> 0]
InfinityIndex == [type |-> "Infinity", val |-> 0]
Num(i) == [type |-> "number", val |-> i]
Null == [type |-> "null", val |-> 0]

\* typeof x === "number"
TypeofNumber(x) == x.type \in {"number", "NaN", "Infinity"}

\* Number.isFinite(x)
IsFinite(x) == x.type = "number"

\* Only the upper end of the range is checked.
OutOfRangeAboveOnly(x, count) ==
    \/ x.type = "number" /\ x.val >= count
    \/ x.type = "Infinity"

\* imageIndex < 0 || imageIndex >= count, as JavaScript compares
OutOfRange(x, count) ==
    \/ x.type = "number" /\ x.val < 0
    \/ x.type = "number" /\ x.val >= count
    \/ x.type = "Infinity"

\* The worker checks the index unless the container holds exactly one image.
WorkerChecksIndex(count) == count # 1

\* No index is ever asked for.
MainChecksNever(count) == FALSE

\* The main thread checks the index when the container holds more than one.
MainChecksIndex(count) == count > 1

\* Object.assign({ interleave: false }, hints.decode || {}).interleave, with
\* hints.decode.interleave not set ("none"), "true" or "false".
DecodeOptsInterleave(hint) == IF hint = "none" THEN "false" ELSE hint

\* tiff.getImage(index) of the geotiff library: the image at an index the
\* container has; for any other value the library is free to fail (-1) or
\* to return some image.
GetImage(count, x) ==
    IF x.type = "number" /\ x.val \in 0..(count - 1)
    THEN {x.val}
    ELSE (0..(count - 1)) \cup {-1}

DecodeFailed(d, e) ==
    [d EXCEPT !.phase = "done", !.ok = FALSE, !.image = -1, !.error = e]

Decoded(d, img) ==
    [d EXCEPT !.phase = "done", !.ok = TRUE, !.image = img, !.error = "",
              !.interleave = DecodeOptsInterleave(d.hint)]

ReadImage(d, x) ==
    { IF img = -1 THEN DecodeFailed(d, "getImage failed") ELSE Decoded(d, img)
        : img \in GetImage(d.count, x) }

\* The outcomes of the worker's decode of d.
decodeRasterFromArrayBuffer(d) ==
    LET imageIndex == IF TypeofNumber(d.index) THEN d.index ELSE Null
    IN  IF WorkerChecksIndex(d.count)
        THEN IF imageIndex = Null
             THEN {DecodeFailed(d, "provide imageIndex")}
             ELSE IF OutOfRange(imageIndex, d.count)
                  THEN {DecodeFailed(d, "out of range")}
                  ELSE ReadImage(d, imageIndex)
        ELSE ReadImage(d, Num(0))

\* The outcomes of the main thread's decode of d.
decodeRawTiffMain(d) ==
    IF MainChecksIndex(d.count)
    THEN IF ~TypeofNumber(d.index) \/ ~IsFinite(d.index)
         THEN {DecodeFailed(d, "provide imageIndex")}
         ELSE IF OutOfRange(d.index, d.count)
              THEN {DecodeFailed(d, "out of range")}
              ELSE ReadImage(d, d.index)
    ELSE ReadImage(d, Num(0))

NoDecode ==
    [phase |-> "idle", path |-> "none", count |-> 1, index |-> Undefined,
     hint |-> "none", ok |-> FALSE, image |-> -1, error |-> "", interleave |-> "none"]

DecodeInput(path, count, index, hint) ==
    [NoDecode EXCEPT !.phase = "input", !.path = path, !.count = count,
                     !.index = index, !.hint = hint]

ImageIndexes ==
    {Undefined, NotNumber, NaNIndex, InfinityIndex} \cup { Num(i) : i \in -1..MaxCount }

DecodeInputs ==
    { DecodeInput(path, count, index, hint) :
        path \in {"worker", "main"}, count \in 1..MaxCount,
        index \in ImageIndexes, hint \in {"none", "true"} }

DecodeInWorker ==
    /\ dec.phase = "input"
    /\ dec.path = "worker"
    /\ dec' \in decodeRasterFromArrayBuffer(dec)
    /\ UNCHANGED <<poolVars, raster, tex, pureVars, got>>

DecodeOnMain ==
    /\ dec.phase = "input"
    /\ dec.path = "main"
    /\ dec' \in decodeRawTiffMain(dec)
    /\ UNCHANGED <<poolVars, raster, tex, pureVars, got>>

(***************************************************************************)
(* Raster to texture set: rasterPayloadToTextureSet of the worker          *)
(* (packCanonicalRGBA in image mode, packBandsAsData in data mode) and the *)
(* fallback of __rt_tiffRasterToGpuTextureSet when there is no pool.       *)
(***************************************************************************)
\* Largest number of bands of a raster.
MaxBands == 6
\* Longest explicit channel list (format.channels).
MaxList == 5

\* Math.ceil(n / 4)
Ceil4(n) == (n + 3) \div 4

\* channelCount of the fallback: raster.bands.length
FallbackChannelCount(bands) == bands

\* A pack: its storage format, the source band of each of its 4 slots, the
\* scale of each slot, and what is stored in each slot for one pixel, as the
\* fraction num/den (for a half-float pack: the value handed to f32ToF16Bits).
\* offset: [0, 0, 0, 0] in every pack the code builds.
Pack(format, channels, scale, data) ==
    [format |-> format, channels |-> channels, scale |-> scale,
     offset |-> <<0, 0, 0, 0>>, data |-> data]

Stored(num, den) == [num |-> num, den |-> den]

\* Largest finite half float.
HalfMax == 65504

\* 2^n
RECURSIVE Pow2(_)
Pow2(n) == IF n = 0 THEN 1 ELSE 2 * Pow2(n - 1)

\* preferRGBA8 && !forceRGBA16F, with format.gpu left at its default or
\* forcing half floats.
WantsRGBA8(gpu) == gpu # "forceRGBA16F"

\* The raster of a conversion: bands 0..3 are of type t.ctor, bands from 4 on
\* of type t.ctorHi; Uint16Array bands declare t.bits bits per sample.
BandCtor(t, b) == IF b < 4 THEN t.ctor ELSE t.ctorHi

\* raster.bitsPerSample[bi]
BandBits(t, b) ==
    CASE BandCtor(t, b) = "Uint8Array"  -> 8
      [] BandCtor(t, b) = "Uint16Array" -> t.bits
      [] OTHER                          -> 32

\* raster.bands[b][i] at the pixel looked at: 0, or the largest value the
\* band declares (a float band: 1000, or 70000 when t.over).
BandSample(t, b) ==
    IF t.level = "zero" THEN 0
    ELSE CASE BandCtor(t, b) = "Float32Array" -> (IF t.over THEN 70000 ELSE 1000)
           [] OTHER                           -> Pow2(BandBits(t, b)) - 1

\* bi >= 0 && bi < raster.bands.length
HasBand(t, bi) == bi \in 0..(t.bands - 1)

\* A value written into a Uint8Array.
U8Store(v) == v % 256

\* Every integer band is scaled by its declared maximum.
ScaleOfDeclaredMax(t, bi) ==
    IF HasBand(t, bi) /\ BandCtor(t, bi) # "Float32Array"
    THEN Pow2(BandBits(t, bi)) - 1
    ELSE 1

\* scale[k] of a half-float pack for the slot whose source band is bi.
ScaleOf(t, bi) ==
    IF HasBand(t, bi) /\ BandCtor(t, bi) # "Float32Array"
    THEN LET bits == BandBits(t, bi)
             max == IF bits > 0 THEN Pow2(bits) - 1 ELSE 65535
         IN  IF max > HalfMax THEN max ELSE 1
    ELSE 1

\* A variant of the pixel loop that stores without clamping.
NeverClamped(t, bi) == FALSE

\* v > 65504 after v = v / scale[k]
ClampedAt(t, bi) ==
    /\ HasBand(t, bi)
    /\ LET v == BandSample(t, bi)
           s == ScaleOf(t, bi)
       IN  (v \div s > HalfMax) \/ (v \div s = HalfMax /\ v % s > 0)

\* What a half-float pack stores for the slot whose source band is bi.
StoredHalf(t, bi) ==
    IF ~HasBand(t, bi) THEN Stored(0, 1)
    ELSE IF ClampedAt(t, bi) THEN Stored(HalfMax, 1)
         ELSE Stored(BandSample(t, bi), ScaleOf(t, bi))

\* What a byte pack stores for the slot whose source band is bi.
StoredByte(t, bi) ==
    IF HasBand(t, bi) THEN Stored(U8Store(BandSample(t, bi)), 1) ELSE Stored(0, 1)

\* channels[i] ?? -1 (i counted from 0)
SlotOrMinus1(channels, i) == IF i + 1 <= Len(channels) THEN channels[i + 1] ELSE -1

\* One turn of the loop: the pack of channels[p..p+3].
PackAt(t, channels, p, useRGBA8) ==
    LET packCh == [k \in 1..4 |-> SlotOrMinus1(channels, p + k - 1)]
    IN  IF useRGBA8
        THEN Pack("RGBA8", packCh, <<1, 1, 1, 1>>, [k \in 1..4 |-> StoredByte(t, packCh[k])])
        ELSE Pack("RGBA16F", packCh, [k \in 1..4 |-> ScaleOf(t, packCh[k])],
                  [k \in 1..4 |-> StoredHalf(t, packCh[k])])

\* for (let p = 0; p < channels.length; p += 4) packs.push(...)
RECURSIVE PackLoop(_, _, _, _, _)
PackLoop(t, channels, p, useRGBA8, packs) ==
    IF p < Len(channels)
    THEN PackLoop(t, channels, p + 4, useRGBA8, Append(packs, PackAt(t, channels, p, useRGBA8)))
    ELSE packs

\* format.channels.slice() when it is a non-empty array, else every band in order
DataChannels(t) == IF Len(t.explicit) > 0 THEN t.explicit ELSE FirstBands(t.bands)

\* channels.filter((c) => c != null && c >= 0).length
CountSelected(channels) == Cardinality({ i \in DOMAIN channels : channels[i] >= 0 })

\* channels.every((c) => raster.bands[c] is a Uint8Array or Uint8ClampedArray)
AllU8(t, channels) ==
    \A i \in DOMAIN channels : HasBand(t, channels[i]) /\ BandCtor(t, channels[i]) = "Uint8Array"

TextureSet(t, mode, channelCount, packs, warns) ==
    [t EXCEPT !.phase = "done", !.outMode = mode, !.channelCount = channelCount,
              !.packs = packs, !.warns = warns]

packBandsAsData(t) ==
    LET channels == DataChannels(t)
        useRGBA8 == WantsRGBA8(t.gpu) /\ AllU8(t, channels)
        packs == PackLoop(t, channels, 0, useRGBA8, <<>>)
        clamped == ~useRGBA8 /\ \E i \in DOMAIN channels : ClampedAt(t, channels[i])
    IN  TextureSet(t, "data", CountSelected(channels), packs,
                   IF clamped THEN {"gpuPack_f16_clamp_worker"} ELSE {})

\* The display buffer of rasterToRGBA8_ImageMode holds bytes; the pixel looked
\* at is opaque white.
packCanonicalRGBA(t) ==
    TextureSet(t, "image", 4,
               <<Pack(IF WantsRGBA8(t.gpu) THEN "RGBA8" ELSE "RGBA16F", <<0, 1, 2, 3>>,
                      <<1, 1, 1, 1>>, [k \in 1..4 |-> Stored(255, 1)])>>,
               {})

\* raster.samplesPerPixel || raster.bands.length (0: the raster declares none)
SamplesPerPixel(t) == IF t.spp # 0 THEN t.spp ELSE t.bands

\* The grey branch does not look at the number of samples.
inferIgnoringSamples(t) ==
    IF t.photometric \in {"RGB", "YCbCr", "CMYK", "CIELab", "Palette",
                          "BlackIsZero", "WhiteIsZero"}
    THEN "image" ELSE "data"

inferFromTIFFTags(t) ==
    IF t.photometric \in {"RGB", "YCbCr", "CMYK", "CIELab", "Palette"}
    THEN "image"
    ELSE IF t.photometric \in {"BlackIsZero", "WhiteIsZero"} /\ SamplesPerPixel(t) = 1
         THEN "image"
         ELSE "data"

\* mode = (interpretation === "auto") ? inferred : interpretation
ResolvedMode(t) ==
    IF t.interpretation = "auto" THEN inferFromTIFFTags(t) ELSE t.interpretation

rasterPayloadToTextureSet(t) ==
    IF ResolvedMode(t) = "image" THEN packCanonicalRGBA(t) ELSE packBandsAsData(t)

\* out[j + k] of the fallback: the band's sample, else 0 (255 for the last slot).
FallbackStored(t, k) ==
    IF HasBand(t, k) THEN Stored(U8Store(BandSample(t, k)), 1)
    ELSE Stored(IF k = 3 THEN 255 ELSE 0, 1)

\* The set the plugin builds itself when getWorkerPool() returns null.
FallbackTextureSet(t) ==
    TextureSet(t, "data", FallbackChannelCount(t.bands),
               <<Pack("RGBA8", <<0, 1, 2, 3>>, <<1, 1, 1, 1>>,
                      [k \in 1..4 |-> FallbackStored(t, k - 1)])>>, {})

NoTexture ==
    [phase |-> "idle", path |-> "none", interpretation |-> "auto", photometric |-> "none",
     bands |-> 1, spp |-> 0, ctor |-> "Uint8Array", ctorHi |-> "Uint8Array", bits |-> 16,
     over |-> FALSE, level |-> "zero", explicit |-> <<>>, gpu |-> "default",
     outMode |-> "none", channelCount |-> 0, packs |-> <<>>, warns |-> {}]

\* The sample types of a raster: <<ctor, ctorHi, bits, over>>.
BandTypes ==
    { <<"Uint8Array", "Uint8Array", 16, FALSE>>,
      <<"Uint8Array", "Uint16Array", 16, FALSE>>,
      <<"Uint16Array", "Uint16Array", 12, FALSE>>,
      <<"Uint16Array", "Uint16Array", 16, FALSE>>,
      <<"Float32Array", "Float32Array", 16, FALSE>>,
      <<"Float32Array", "Float32Array", 16, TRUE>> }

TextureInput(path, interpretation, photometric, bands, spp, types, level, explicit, gpu) ==
    [NoTexture EXCEPT !.phase = "input", !.path = path,
                      !.interpretation = interpretation, !.photometric = photometric,
                      !.bands = bands, !.spp = spp,
                      !.ctor = types[1], !.ctorHi = types[2], !.bits = types[3],
                      !.over = types[4], !.level = level,
                      !.explicit = explicit, !.gpu = gpu]

\* Explicit channel lists: band 0, band 4 or an unused slot (-1) per entry;
\* <<>> stands for no list.
ChannelLists == UNION { [1..n -> {-1, 0, 4}] : n \in 0..MaxList }

\* The colour-space tags: the seven the worker names, one it does not
\* (TransparencyMask), and no tag.
Photometrics ==
    {"RGB", "YCbCr", "CMYK", "CIELab", "Palette", "BlackIsZero", "WhiteIsZero",
     "TransparencyMask", "none"}

\* Data-mode conversions in the worker: every band type and channel list.
DataInputs ==
    { TextureInput("worker", "data", "none", bands, bands, types, level, explicit, gpu) :
        bands \in 1..MaxBands, types \in BandTypes, level \in {"zero", "top"},
        explicit \in ChannelLists, gpu \in {"default", "forceRGBA16F"} }

\* Conversions on both paths: every interpretation, tag and band count; the
\* raster declares no samples-per-pixel, its band count, or one more.
ModeInputs ==
    { TextureInput(path, interpretation, photometric, bands, IF more = 0 THEN 0 ELSE bands + more - 1,
                   types, "top", <<>>, "default") :
        path \in {"worker", "main"}, interpretation \in {"auto", "image", "data"},
        photometric \in Photometrics, bands \in 1..MaxBands,
        more \in 0..2,
        types \in {<<"Uint8Array", "Uint8Array", 16, FALSE>>,
                   <<"Uint16Array", "Uint16Array", 12, FALSE>>} }

TextureInputs == DataInputs \cup ModeInputs

TextureSetInWorker ==
    /\ tex.phase = "input"
    /\ tex.path = "worker"
    /\ tex' = rasterPayloadToTextureSet(tex)
    /\ UNCHANGED <<poolVars, raster, dec, pureVars, got>>

TextureSetOnMain ==
    /\ tex.phase = "input"
    /\ tex.path = "main"
    /\ ~live
    /\ tex' = FallbackTextureSet(tex)
    /\ consoleEchoOnce' = LogOnceEcho(consoleEchoOnce, "gpuTextureSet_no_worker")
    /\ console' = LogOnceConsole(consoleEchoOnce, console, "gpuTextureSet_no_worker")
    /\ UNCHANGED <<gen, live, nextId, pending, callbacks, reqs, inbox, outbox,
                   delivered, failed, last, raster, dec, pureVars, got>>

(***************************************************************************)
(* The format layers and deepMerge.  A format is an object with the keys   *)
(* interpretation (a string when set) and gpu; the value of gpu is null,   *)
(* a scalar, an array or a nested object over GpuKeys, whose own values    *)
(* are null or a scalar.  A key an object does not have reads "absent".    *)
(* Every value is a record of one shape: kind tells what it is, obj holds  *)
(* the properties when kind is "object".                                   *)
(***************************************************************************)
GpuKeys == {"preferRGBA8", "forceRGBA16F"}

NestedValues == {"absent", "null", "one"}

NoProperties == [k \in GpuKeys |-> "absent"]

Value(kind, obj) == [kind |-> kind, obj |-> obj]

GpuValues ==
    {Value(kind, NoProperties) : kind \in {"absent", "null", "one", "array"}}
    \cup {Value("object", obj) : obj \in [GpuKeys -> NestedValues]}

Interpretations == {"absent", "image", "data"}

\* present is FALSE for a format that is null or undefined.
Format(present, interpretation, gpuValue) ==
    [present |-> present, interpretation |-> interpretation, gpu |-> gpuValue]

NoFormat == Format(FALSE, "absent", Value("absent", NoProperties))

Formats ==
    {NoFormat} \cup {Format(TRUE, i, g) : i \in Interpretations, g \in GpuValues}

\* bv && typeof bv === "object" && !Array.isArray(bv)
IsPlainObject(v) == v.kind = "object"

\* The nested call deepMerge(out[k], bv) on two gpu objects: their values
\* are not objects, so every key of bv takes the else branch out[k] = bv.
deepMergeNested(aobj, bobj) ==
    [k \in GpuKeys |-> IF bobj[k] = "absent" THEN aobj[k] ELSE bobj[k]]

\* A variant that never descends: out[k] = bv for every key of b.
MergeKeyReplacing(av, bv) ==
    IF bv.kind = "absent" THEN av ELSE bv

\* One turn of the loop over Object.keys(b), for the key gpu.
MergeKey(av, bv) ==
    IF bv.kind = "absent" THEN av
    ELSE IF IsPlainObject(bv) /\ IsPlainObject(av)
         THEN Value("object", deepMergeNested(av.obj, bv.obj))
         ELSE bv

\* deepMerge(a, b): out is a copy of a ({} when a is null), returned as it
\* is when b is null, otherwise updated with every key b has.
deepMerge(a, b) ==
    IF ~b.present THEN Format(TRUE, a.interpretation, a.gpu)
    ELSE Format(TRUE,
                IF b.interpretation = "absent" THEN a.interpretation
                ELSE b.interpretation,
                MergeKey(a.gpu, b.gpu))

\* resolveExternalFormat(tile, dataOrRaster): the first source that has a
\* format, the hints of the data before the tile; null when none has one.
resolveExternalFormat(tileFormat, hintsFormat) ==
    IF hintsFormat.present THEN hintsFormat
    ELSE IF tileFormat.present THEN tileFormat
    ELSE NoFormat

\* mergedFmt of __rt_decodeViaWorker, forwarded as hints.formatResolved.
MergedFmt(c) ==
    deepMerge(c.defaults, resolveExternalFormat(c.tile, c.hints))

NoConfig ==
    [phase |-> "none", defaults |-> NoFormat, hints |-> NoFormat,
     tile |-> NoFormat, ab |-> NoFormat, abb |-> NoFormat, left |-> NoFormat,
     right |-> NoFormat, formatResolved |-> NoFormat]

ConfigInputs ==
    {[NoConfig EXCEPT !.phase = "input", !.defaults = a, !.hints = b, !.tile = c] :
        a \in Formats, b \in Formats, c \in Formats}

\* deepMerge applied to three layers a, b, c in both groupings.
MergeLayers ==
    /\ cfg.phase = "input"
    /\ cfg' = [cfg EXCEPT
                 !.phase = "merged",
                 !.ab = deepMerge(cfg.defaults, cfg.hints),
                 !.abb = deepMerge(deepMerge(cfg.defaults, cfg.hints), cfg.hints),
                 !.left = deepMerge(deepMerge(cfg.defaults, cfg.hints), cfg.tile),
                 !.right = deepMerge(cfg.defaults, deepMerge(cfg.hints, cfg.tile))]
    /\ UNCHANGED <<poolVars, convVars, half, rgba, got>>

\* __rt_decodeViaWorker up to the request: defaults.format is an object.
ResolveFormat ==
    /\ cfg.phase = "input"
    /\ cfg.defaults.present
    /\ cfg' = [cfg EXCEPT !.phase = "resolved", !.formatResolved = MergedFmt(cfg)]
    /\ UNCHANGED <<poolVars, convVars, half, rgba, got>>

(***************************************************************************)
(* f32ToF16Bits of the worker.  Its input is the value once stored in the  *)
(* Float32Array, read back as the 32 bits x: sign, exponent and mantissa   *)
(* are the fields the function takes from x.                               *)
(***************************************************************************)
RECURSIVE BitAnd(_, _)
BitAnd(a, b) ==
    IF a = 0 \/ b = 0 THEN 0
    ELSE (a % 2) * (b % 2) + 2 * BitAnd(a \div 2, b \div 2)

RECURSIVE BitOr(_, _)
BitOr(a, b) ==
    IF a = 0 THEN b
    ELSE IF b = 0 THEN a
    ELSE Max(a % 2, b % 2) + 2 * BitOr(a \div 2, b \div 2)

ShiftLeft(a, n) == a * Pow2(n)

ShiftRight(a, n) == a \div Pow2(n)

\* 0x7E00, 0x7C00: the quiet NaN and the Infinity of a half, without sign.
QNaNBits == 32256

InfBits == 31744

\* 0xFF, 0x1F: the all-ones exponent of a float32 and of a half.
ExpOnes32 == 255

ExpOnes16 == 31

\* 0x00001000 and 0x00800000: the rounding increment and the carry bit.
RoundingIncrement == 4096

CarryBit == 8388608

\* A variant of the branch for exp === 0xFF that takes every all-ones
\* exponent for an Infinity.
NaNOrInfAlwaysInf(sign, mant) ==
    BitOr(ShiftLeft(sign, 15), InfBits)

\* if (exp === 0xFF): a quiet NaN for a non-zero mantissa, else Infinity.
NaNOrInf(sign, mant) ==
    IF mant # 0 THEN BitOr(ShiftLeft(sign, 15), QNaNBits)
    ELSE BitOr(ShiftLeft(sign, 15), InfBits)

\* A variant of the rounding step that truncates.
Truncated(mant) == mant

\* mant = mant + 0x00001000
Rounded(mant) == mant + RoundingIncrement

\* From the rounding step to the return, for the rebiased exponent exp.
RoundAndPack(sign, exp, mant) ==
    LET m == Rounded(mant)
    IN  IF BitAnd(m, CarryBit) # 0
        THEN IF exp + 1 >= ExpOnes16
             THEN BitOr(ShiftLeft(sign, 15), InfBits)
             ELSE BitOr(BitOr(ShiftLeft(sign, 15), ShiftLeft(exp + 1, 10)),
                        ShiftRight(0, 13))
        ELSE BitOr(BitOr(ShiftLeft(sign, 15), ShiftLeft(exp, 10)),
                   ShiftRight(m, 13))

f32ToF16Bits(sign, exp, mant) ==
    IF exp = ExpOnes32 THEN NaNOrInf(sign, mant)
    ELSE IF exp = 0 THEN ShiftLeft(sign, 15)
    ELSE LET e == exp - 127 + 15
         IN  IF e >= ExpOnes16 THEN BitOr(ShiftLeft(sign, 15), InfBits)
             ELSE IF e <= 0 THEN ShiftLeft(sign, 15)
             ELSE RoundAndPack(sign, e, mant)

NoHalf == [phase |-> "none", sign |-> 0, exp |-> 0, mant |-> 0, bits |-> 0]

\* The mantissas tried: zero, the ends of the 23 bits, and the values each
\* side of a rounding step, of the largest half and of the carry.
Mantissas ==
    {0, 1, 4095, 4096, 8191, 8192, 4194304, 8380416, 8380417, 8384511,
     8384512, 8388607}

HalfInputs ==
    {[NoHalf EXCEPT !.phase = "input", !.sign = s, !.exp = e, !.mant = m] :
        s \in 0..1, e \in 0..ExpOnes32, m \in Mantissas}

ConvertToHalf ==
    /\ half.phase = "input"
    /\ half' = [half EXCEPT !.phase = "done",
                            !.bits = f32ToF16Bits(half.sign, half.exp, half.mant)]
    /\ UNCHANGED <<poolVars, convVars, cfg, rgba, got>>

(***************************************************************************)
(* The buffer a display render returns: rasterToRGBA8_ImageMode of the     *)
(* worker and rasterToRGBA8 of the page, with the Converters they call.    *)
(* A raster has `bands` bands of `pixels` samples each; `channels` is the  *)
(* length of the explicit channel list (0: none is given).  Of the buffer  *)
(* the model keeps its length and where its alpha bytes come from: "255",  *)
(* an alpha band, or the fourth channel.                                   *)
(***************************************************************************)
\* Largest width * height of a rendered raster.
MaxPixels == 3

Buffer(len, alpha) == [len |-> len, alpha |-> alpha]

\* RGBAfromRGB, RGBAfromYCbCr, RGBAfromCIELab with one interleaved input:
\* new Uint8ClampedArray((input.length * 4) / 3), alpha 255 every 4 bytes.
RGBAfromInterleaved3(inputLength) == Buffer((inputLength * 4) \div 3, "255")

\* RGBAfromCMYK with one interleaved input: new Uint8ClampedArray(input.length).
RGBAfromInterleavedCMYK(inputLength) == Buffer(inputLength, "255")

\* Every converter called with planar bands, and the grey and palette
\* converters: new Uint8ClampedArray(n * 4).
RGBAfromPlanar(n, alpha) == Buffer(n * 4, alpha)

\* channels.splice(4)
Kept(n) == IF n > 4 THEN 4 ELSE n

\* The palette and the two grey branches, the same in both renders.
ReturnsBeforeMapping(i) ==
    \/ i.photometric = "Palette" /\ i.colorMap
    \/ i.photometric \in {"WhiteIsZero", "BlackIsZero"}

\* From tmp (pixels * n bytes) to the buffer, in the worker.
WorkerMapped(i, n) ==
    LET tmp == i.pixels * n
    IN  IF n = 1 THEN RGBAfromPlanar(i.pixels, "255")
        ELSE IF n = 4 /\ i.photometric \notin {"YCbCr", "CMYK", "CIELab"}
             THEN Buffer(tmp, "channel")
        ELSE IF i.photometric = "YCbCr" /\ n >= 3 THEN RGBAfromInterleaved3(tmp)
        ELSE IF i.photometric = "CMYK" /\ n >= 4 THEN RGBAfromInterleavedCMYK(tmp)
        ELSE IF i.photometric = "CIELab" /\ n >= 3 THEN RGBAfromInterleaved3(tmp)
        ELSE IF n = 3 THEN RGBAfromInterleaved3(tmp)
        ELSE Buffer(i.pixels * 4, "255")

rasterToRGBA8_ImageMode(i) ==
    LET spp == i.bands
        n == Kept(i.channels)
    IN  IF ReturnsBeforeMapping(i) THEN RGBAfromPlanar(i.pixels, "255")
        ELSE IF n >= 1 THEN WorkerMapped(i, n)
        ELSE IF i.photometric = "RGB" /\ spp >= 3
             THEN RGBAfromPlanar(i.pixels, IF spp >= 4 THEN "band" ELSE "255")
        ELSE RGBAfromPlanar(i.pixels, "255")

\* renderChannels || ([0, 1, 2] or [0]): the length of the list selected.
MainSelected(i) ==
    IF i.channels # 0 THEN i.channels
    ELSE IF i.photometric \in {"RGB", "YCbCr", "CIELab"} \/ i.bands >= 3 THEN 3
    ELSE 1

MainMapped(i, n) ==
    LET tmp == i.pixels * n
    IN  IF n = 1 THEN Buffer(i.pixels * 4, "255")
        ELSE IF i.photometric = "YCbCr" /\ n >= 3 THEN RGBAfromInterleaved3(tmp)
        ELSE IF i.photometric = "CMYK" /\ n >= 4 THEN RGBAfromInterleavedCMYK(tmp)
        ELSE IF i.photometric = "CIELab" /\ n >= 3 THEN RGBAfromInterleaved3(tmp)
        ELSE IF n = 4 THEN Buffer(tmp, "channel")
        ELSE IF n = 3 THEN RGBAfromInterleaved3(tmp)
        ELSE Buffer(i.pixels * 4, "255")

rasterToRGBA8(i) ==
    IF ReturnsBeforeMapping(i) THEN RGBAfromPlanar(i.pixels, "255")
    ELSE MainMapped(i, Kept(MainSelected(i)))

NoImage ==
    [phase |-> "none", path |-> "none", photometric |-> "none", colorMap |-> FALSE,
     bands |-> 1, channels |-> 0, pixels |-> 1, out |-> Buffer(0, "255")]

ImageInputs ==
    {[NoImage EXCEPT !.phase = "input", !.path = path, !.photometric = pi,
                     !.colorMap = map, !.bands = b, !.channels = n, !.pixels = px] :
        path \in {"worker", "main"}, pi \in Photometrics, map \in BOOLEAN,
        b \in 1..MaxBands, n \in 0..MaxChannels, px \in 1..MaxPixels}

RenderInWorker ==
    /\ rgba.phase = "input"
    /\ rgba.path = "worker"
    /\ rgba' = [rgba EXCEPT !.phase = "done", !.out = rasterToRGBA8_ImageMode(rgba)]
    /\ UNCHANGED <<poolVars, convVars, cfg, half, got>>

RenderOnMain ==
    /\ rgba.phase = "input"
    /\ rgba.path = "main"
    /\ rgba' = [rgba EXCEPT !.phase = "done", !.out = rasterToRGBA8(rgba)]
    /\ UNCHANGED <<poolVars, convVars, cfg, half, got>>

(***************************************************************************)
(* The pool with its workers.                                              *)
(***************************************************************************)
PoolInit ==
    /\ gen = 0
    /\ live = FALSE
    /\ nextId = 1
    /\ pending = [w \in Workers |-> 0]
    /\ callbacks = [w \in Workers |-> EmptyMap]
    /\ reqs = <<>>
    /\ inbox = [w \in Workers |-> {}]
    /\ outbox = [w \in Workers |-> <<>>]
    /\ delivered = [w \in Workers |-> {}]
    /\ failed = [w \in Workers |-> FALSE]
    /\ consoleEchoOnce = {}
    /\ console = [k \in LogKeys |-> 0]
    /\ last = Event("init", 0, NoMsg, 0)
    /\ got = 0

Init ==
    /\ PoolInit
    /\ raster = NoRaster
    /\ dec = NoDecode
    /\ tex = NoTexture
    /\ cfg = NoConfig
    /\ half = NoHalf
    /\ rgba = NoImage

\* The requests and worker outcomes explored with the pool.
PoolOps == {"decodeRaster", "bogusOp"}

PoolOutcomes == {Returned, [type |-> "Error", text |-> "decode failed"]}

PoolPayloads == {Payload(0, "data", FALSE)}

Next ==
    \/ gen < MaxPools /\ GetWorkerPool
    \/ Len(reqs) < MaxReq /\ \E op \in PoolOps, pl \in PoolPayloads, threw \in BOOLEAN :
          Request(op, pl, threw)
    \/ RequestOnTerminated
    \/ \E w \in Workers : \E m \in inbox[w] : \E o \in PoolOutcomes :
          \E warn \in WarnsPosted(m, o) : WorkerHandle(w, m, o, warn)
    \/ \E w \in Workers : OnMessage(w)
    \/ \E w \in Workers : \E msg \in delivered[w] : DuplicateMessage(w, msg)
    \/ \E w \in Workers : OnError(w)
    \/ TerminateWorkerPool

Spec == Init /\ [][Next]_vars

(***************************************************************************)
(* The worker's protocol: every op, every payload, every way a handler run *)
(* can end.                                                                *)
(***************************************************************************)
\* Number of pool.request calls explored over a run of SpecWorker.
MaxWorkerReq == 1

WorkerPayloads ==
    {Payload(0, "data", FALSE), Payload(0, "data", TRUE),
     Payload(3, "image", FALSE), Payload(MaxChannels, "image", FALSE)}

NextWorker ==
    \/ gen < MaxPools /\ GetWorkerPool
    \/ Len(reqs) < MaxWorkerReq /\ \E op \in Ops, pl \in WorkerPayloads : Request(op, pl, FALSE)
    \/ \E w \in Workers : \E m \in inbox[w] : \E o \in Outcomes :
          \E warn \in WarnsPosted(m, o) : WorkerHandle(w, m, o, warn)
    \/ \E w \in Workers : OnMessage(w)
    \/ \E w \in Workers : OnError(w)

SpecWorker == Init /\ [][NextWorker]_vars

(***************************************************************************)
(* Display renders on the main thread and in the workers of one pool.      *)
(***************************************************************************)
RenderRasters ==
    { Raster(pi, FALSE, FirstBands(n)) :
        pi \in {"RGB", "BlackIsZero"}, n \in {0, MaxChannels} }

RenderPayloads == {Payload(3, "image", FALSE), Payload(MaxChannels, "image", FALSE)}

NextRender ==
    \/ gen < MaxPools /\ GetWorkerPool
    \/ Len(reqs) < MaxReq /\ \E pl \in RenderPayloads :
          Request("decodeAndRenderImageBitmap", pl, FALSE)
    \/ \E w \in Workers : \E m \in inbox[w] :
          \E warn \in WarnsPosted(m, Returned) : WorkerHandle(w, m, Returned, warn)
    \/ \E w \in Workers : OnMessage(w)
    \/ \E r \in RenderRasters : MakeRaster(r)
    \/ RasterToRGBA8

SpecRender == Init /\ [][NextRender]_vars

(***************************************************************************)
(* Pools over the life of the page: a pool is made, warns, is torn down,   *)
(* and the next getWorkerPool() makes another.                             *)
(***************************************************************************)
\* Number of pools getWorkerPool may construct over a run of SpecLife.
MaxLifePools == 2

LifePayloads == {Payload(MaxChannels, "image", FALSE), Payload(0, "data", TRUE)}

NextLife ==
    \/ gen < MaxLifePools /\ GetWorkerPool
    \/ Len(reqs) < MaxReq /\ \E pl \in LifePayloads :
          Request("rasterToGpuTextureSet", pl, FALSE)
    \/ \E w \in Workers : \E m \in inbox[w] :
          \E warn \in WarnsPosted(m, Returned) : WorkerHandle(w, m, Returned, warn)
    \/ \E w \in Workers : OnMessage(w)
    \/ TerminateWorkerPool

SpecLife == Init /\ [][NextLife]_vars

(***************************************************************************)
(* The shared pool: getWorkerPool() called with and without a pool, with   *)
(* requests, failed posts, worker errors and tear-downs in between.        *)
(***************************************************************************)
\* Number of pools getWorkerPool may construct over a run of SpecShared.
MaxSharedPools == 2

\* Number of pool.request calls explored over a run of SpecShared.
MaxSharedReq == 3

NextShared ==
    \/ gen < MaxSharedPools /\ GetWorkerPool
    \/ GetWorkerPoolShared
    \/ Len(reqs) < MaxSharedReq /\ \E threw \in BOOLEAN :
          Request("decodeRaster", Payload(0, "data", FALSE), threw)
    \/ \E w \in Workers : OnError(w)
    \/ TerminateWorkerPool

SpecShared == Init /\ [][NextShared]_vars

(***************************************************************************)
(* One display render, for every raster and explicit channel list.         *)
(***************************************************************************)
InitImage ==
    /\ PoolInit
    /\ raster = NoRaster
    /\ dec = NoDecode
    /\ tex = NoTexture
    /\ cfg = NoConfig
    /\ half = NoHalf
    /\ rgba \in ImageInputs

NextImage ==
    \/ RenderInWorker
    \/ RenderOnMain

SpecImage == InitImage /\ [][NextImage]_vars

(***************************************************************************)
(* One raster converted through the pool and rendered, in any order and    *)
(* more than once.                                                         *)
(***************************************************************************)
\* Number of conversions explored over a run of SpecTransfer.
MaxTransferReq == 3

TransferRasters ==
    { Raster(pi, FALSE, FirstBands(n)) : pi \in {"RGB", "none"}, n \in {0, 3, 4} }

NextTransfer ==
    \/ gen < MaxPools /\ GetWorkerPool
    \/ ~raster.made /\ \E r \in TransferRasters : MakeRaster(r)
    \/ Len(reqs) < MaxTransferReq /\ TiffRasterToGpuTextureSet
    \/ RasterToRGBA8
    \/ \E w \in Workers : \E m \in inbox[w] :
          \E warn \in WarnsPosted(m, Returned) : WorkerHandle(w, m, Returned, warn)
    \/ \E w \in Workers : OnMessage(w)

SpecTransfer == Init /\ [][NextTransfer]_vars

(***************************************************************************)
(* A pool that is never torn down, with workers that handle every message  *)
(* they receive and a channel that delivers every message posted: the two  *)
(* handlers are run by the event loops of the worker and of the page, so   *)
(* each of them runs once it can.                                          *)
(***************************************************************************)
\* Number of pool.request calls explored over a run of SpecLive.
MaxLiveReq == 1

LiveOutcomes == {Returned, PostThrew, [type |-> "Error", text |-> "decode failed"]}

WorkerHandles(w) ==
    \E m \in inbox[w] : \E o \in LiveOutcomes :
        \E warn \in WarnsPosted(m, o) : WorkerHandle(w, m, o, warn)

NextLive ==
    \/ gen < MaxPools /\ GetWorkerPool
    \/ Len(reqs) < MaxLiveReq /\ \E op \in PoolOps, threw \in BOOLEAN :
          Request(op, Payload(0, "data", FALSE), threw)
    \/ \E w \in Workers : WorkerHandles(w)
    \/ \E w \in Workers : OnMessage(w)
    \/ \E w \in Workers : OnError(w)

SpecLive ==
    /\ Init
    /\ [][NextLive]_vars
    /\ \A w \in Workers : WF_vars(WorkerHandles(w)) /\ WF_vars(OnMessage(w))

(***************************************************************************)
(* One decode, for every container size and image index.                   *)
(***************************************************************************)
InitDecode ==
    /\ PoolInit
    /\ raster = NoRaster
    /\ dec \in DecodeInputs
    /\ tex = NoTexture
    /\ cfg = NoConfig
    /\ half = NoHalf
    /\ rgba = NoImage

NextDecode ==
    \/ DecodeInWorker
    \/ DecodeOnMain

SpecDecode == InitDecode /\ [][NextDecode]_vars

(***************************************************************************)
(* One raster-to-texture-set conversion, for every raster and format.      *)
(***************************************************************************)
InitPack ==
    /\ PoolInit
    /\ raster = NoRaster
    /\ dec = NoDecode
    /\ tex \in TextureInputs
    /\ cfg = NoConfig
    /\ half = NoHalf
    /\ rgba = NoImage

NextPack ==
    \/ TextureSetInWorker
    \/ TextureSetOnMain

SpecPack == InitPack /\ [][NextPack]_vars

(***************************************************************************)
(* One format resolution, for every three layers.                          *)
(***************************************************************************)
InitMerge ==
    /\ PoolInit
    /\ raster = NoRaster
    /\ dec = NoDecode
    /\ tex = NoTexture
    /\ cfg \in ConfigInputs
    /\ half = NoHalf
    /\ rgba = NoImage

NextMerge ==
    \/ MergeLayers
    \/ ResolveFormat

SpecMerge == InitMerge /\ [][NextMerge]_vars

(***************************************************************************)
(* One float32-to-half conversion, for every sign, exponent and the        *)
(* mantissas above.                                                        *)
(***************************************************************************)
InitHalf ==
    /\ PoolInit
    /\ raster = NoRaster
    /\ dec = NoDecode
    /\ tex = NoTexture
    /\ cfg = NoConfig
    /\ half \in HalfInputs
    /\ rgba = NoImage

NextHalf == ConvertToHalf

SpecHalf == InitHalf /\ [][NextHalf]_vars

(***************************************************************************)
(* Properties of the pool.                                                 *)
(***************************************************************************)
\* A step in which request() ran on the live pool and made a deferred.
RequestStep == Len(reqs') = Len(reqs) + 1

\* The worker request() chose in a RequestStep.
Chosen == reqs'[Len(reqs')].w

\* w has the fewest outstanding requests and is the first such worker.
LeastLoadedFirst(p, w) ==
    \A v \in Workers : p[w] <= p[v] /\ (p[v] = p[w] => w <= v)

\* The deferreds held in a correlation table.
Held(m) == { m[i] : i \in DOMAIN m }

\* C1 (as stated): whenever request() is called, the request goes to the
\* first worker with the minimal pending count, exactly that worker's pending
\* count grows by 1 and no other worker's count changes.
C1_EveryRequestGrowsChosenPending ==
    [][RequestStep =>
         /\ LeastLoadedFirst(pending, Chosen)
         /\ pending' = [pending EXCEPT ![Chosen] = @ + 1]]_vars

\* C1 (amended): a request() on a pool that has its workers goes to the first
\* worker with the minimal pending count; when postMessage succeeds exactly
\* that worker's pending count grows by 1 and it holds the new correlation
\* entry and the message; when postMessage throws, every pending count and
\* correlation table is as before the call.
C1_RequestGoesToLeastLoadedFirst ==
    [][RequestStep =>
         /\ LeastLoadedFirst(pending, Chosen)
         /\ IF last'.ev = "request"
            THEN /\ pending' = [pending EXCEPT ![Chosen] = @ + 1]
                 /\ callbacks' = [callbacks EXCEPT ![Chosen] = MapSet(@, nextId, Len(reqs'))]
                 /\ \E m \in inbox'[Chosen] \ inbox[Chosen] : m.id = nextId
            ELSE /\ pending' = pending
                 /\ callbacks' = callbacks
                 /\ inbox' = inbox]_vars

\* C1 witness: a request was routed past a busy first worker to the second.
C1_Witness ==
    /\ last.ev = "request"
    /\ last.w = 2
    /\ pending[1] = 1
    /\ pending[2] = 1

\* C2: a reply settles only the request issued with its id on that worker,
\* resolving it with the reply's result when ok and rejecting it with the
\* reply's error otherwise, in whatever order replies arrive; and resolve or
\* reject is called at most once per request, also after a duplicate reply, a
\* worker error or a teardown.
C2_ReplySettlesOnlyItsRequestOnce ==
    /\ [](\A r \in DOMAIN reqs : reqs[r].settles <= 1)
    /\ [][last'.ev \in {"message", "duplicate"} /\ last' # last =>
            LET msg == last'.msg
                w == last'.w
            IN  /\ \A r \in DOMAIN reqs :
                      reqs'[r] # reqs[r] =>
                         /\ msg.kind = "reply"
                         /\ reqs[r].id = msg.id
                         /\ reqs[r].w = w
                         /\ reqs[r].gen = gen
                         /\ reqs[r].state = "pending"
                         /\ reqs'[r].state = IF msg.ok THEN "resolved" ELSE "rejected"
                         /\ reqs'[r].value = IF msg.ok THEN msg.result ELSE msg.error
                /\ (msg.kind = "reply" /\ MapHas(callbacks[w], msg.id)) =>
                      reqs'[callbacks[w][msg.id]].state # "pending"]_vars

\* C2 witness: request 2 was resolved first, then request 1's error reply
\* arrived and rejected request 1.
C2_Witness ==
    /\ Len(reqs) >= 2
    /\ reqs[2].state = "resolved"
    /\ reqs[1].state = "rejected"
    /\ reqs[1].value = "decode failed"
    /\ last.ev = "message"
    /\ last.msg.id = 1

\* C3 (as stated): when the pool is torn down, every request outstanding at
\* that moment is rejected.
C3_TerminateRejectsOutstanding ==
    [][live /\ ~live' =>
          \A w \in Workers : \A r \in Held(callbacks[w]) :
              reqs'[r].state = "rejected"]_vars

\* A step in which w.onerror ran for worker w and changed something.
ErrorStep(w) == last'.ev = "error" /\ last'.w = w /\ last' # last

\* C4 (as stated): when one worker fails, every request outstanding on it is
\* rejected and no request on another worker is settled or altered; and a
\* request issued after the failure is served by another worker of the pool.
C4_FailureIsolatedAndOthersServe ==
    [][/\ \A w \in Workers : ErrorStep(w) =>
             /\ \A r \in Held(callbacks[w]) : reqs'[r].state = "rejected"
             /\ \A r \in DOMAIN reqs : r \notin Held(callbacks[w]) => reqs'[r] = reqs[r]
             /\ \A v \in Workers \ {w} :
                   callbacks'[v] = callbacks[v] /\ pending'[v] = pending[v]
       /\ (RequestStep /\ last'.ev = "request" /\ \E v \in Workers : ~failed[v]) =>
             ~failed[Chosen]]_vars

(***************************************************************************)
(* The worker's replies.                                                   *)
(***************************************************************************)
\* A reply is {ok: true, result} without an error or {ok: false, error}
\* without a result.
WellFormed(r) ==
    \/ r.ok /\ r.result # Absent /\ r.error = Absent
    \/ ~r.ok /\ r.error # Absent /\ r.result = Absent

\* What worker w posted in this step.
Posted(w) == SubSeq(outbox'[w], Len(outbox[w]) + 1, Len(outbox'[w]))

\* C5: for every request message a worker receives, whatever the op
\* (an unknown one too) and however the run ends (the op returns, the op
\* throws, posting the result throws), the worker posts exactly one reply;
\* it carries the id of the request and is either {ok: true, result} with
\* no error or {ok: false, error} with no result; the reply to an unknown op
\* is of the {ok: false, error} form.
C5_WorkerPostsOneWellFormedReply ==
    [][\A w \in Workers : \A m \in inbox[w] \ inbox'[w] :
          last'.ev = "workerHandle" =>
             LET replies == { i \in DOMAIN Posted(w) : Posted(w)[i].kind = "reply" }
             IN  /\ Cardinality(replies) = 1
                 /\ \A i \in replies :
                       /\ Posted(w)[i].id = m.id
                       /\ WellFormed(Posted(w)[i])
                       /\ (m.op \notin KnownOps => ~Posted(w)[i].ok)
                       /\ (last'.msg = Posted(w)[i])
                 /\ \A v \in Workers \ {w} : outbox'[v] = outbox[v]]_vars

\* An unknown op was answered with {ok: false, error}, and the pool has
\* rejected the request with that error.
C5_Witness ==
    /\ last.ev = "message"
    /\ last.msg.kind = "reply"
    /\ ~last.msg.ok
    /\ last.msg.error = "Unknown worker op"
    /\ \E r \in DOMAIN reqs : reqs[r].id = last.msg.id /\ reqs[r].state = "rejected"

(***************************************************************************)
(* Image selection.                                                        *)
(***************************************************************************)
\* C6: a decode of a container holding more than one image for which the
\* hints carry no image index fails, on the worker path and on the
\* main-thread path alike: it ends with the "provide imageIndex" error and
\* no image is read.
C6_MultiImageWithoutIndexFails ==
    (dec.phase = "done" /\ dec.count > 1 /\ dec.index = Undefined)
        => (~dec.ok /\ dec.image = -1 /\ dec.error = "provide imageIndex")

C6_Witness ==
    /\ dec.phase = "done"
    /\ dec.path = "main"
    /\ dec.count = MaxCount
    /\ dec.index = Undefined
    /\ ~dec.ok

\* The supplied index is an integer outside 0..count-1.
IndexOutside(d) ==
    d.index.type = "number" /\ (d.index.val < 0 \/ d.index.val >= d.count)

\* C7 as stated: a decode whose supplied image index is out of range
\* (index < 0 or index >= image count) fails and reads no image, for every
\* image count, 1 included.
C7_OutOfRangeIndexAlwaysFails ==
    (dec.phase = "done" /\ IndexOutside(dec)) => (~dec.ok /\ dec.image = -1)

\* C7: in a container holding more than one image, a decode whose supplied
\* index is out of range fails with the out-of-range error and reads no
\* image, on both paths; in a container holding exactly one image the
\* supplied index is not looked at and image 0 is decoded.
C7_OutOfRangeIndexFailsInMultiImage ==
    /\ (dec.phase = "done" /\ dec.count > 1 /\ IndexOutside(dec))
          => (~dec.ok /\ dec.image = -1 /\ dec.error = "out of range")
    /\ (dec.phase = "done" /\ dec.count = 1) => (dec.ok /\ dec.image = 0)

C7_Witness ==
    /\ dec.phase = "done"
    /\ dec.path = "worker"
    /\ dec.count = 2
    /\ dec.index = Num(-1)
    /\ dec.error = "out of range"

(***************************************************************************)
(* Warnings.                                                               *)
(***************************************************************************)
MainTruncationKey == "renderChannels>4_to_RGBA"

WorkerTruncationKey == "renderChannels>4_to_RGBA_worker"

TruncationWarnings == console[MainTruncationKey] + console[WorkerTruncationKey]

\* The state follows a main-thread render that was asked for more than 4 channels.
AfterMainRenderOver4 == last.ev = "rasterToRGBA8" /\ last.req > 4

\* The state follows the delivery of a worker's truncation warning.
AfterWorkerRenderOver4 ==
    last.ev = "message" /\ last.msg.kind = "warn" /\ last.msg.code = WorkerTruncationKey

\* C8 as stated: once a display render asked for more than 4 channels has
\* run (on the main thread, or in a worker whose warning has arrived),
\* exactly one truncation warning in total has been surfaced, whatever the
\* number and mix of such renders.
C8_OneTruncationWarningInTotal ==
    (AfterMainRenderOver4 \/ AfterWorkerRenderOver4) => TruncationWarnings = 1

\* C8: truncation warnings are surfaced at most once per dedup key and never
\* withdrawn: the main-thread key once a main-thread render asked for more
\* than 4 channels reaches channel selection (a palette or grey raster
\* returns before it and surfaces none), the worker key once a worker's
\* truncation warning reaches the pool; so a mix of main-thread and worker
\* renders surfaces at most two warnings, not one per call.
C8_OneTruncationWarningPerKey ==
    /\ [](/\ console[MainTruncationKey] <= 1
          /\ console[WorkerTruncationKey] <= 1
          /\ (AfterMainRenderOver4 /\ ~ReturnsBeforeChannels(raster))
                => console[MainTruncationKey] = 1
          /\ AfterWorkerRenderOver4 => console[WorkerTruncationKey] = 1)
    /\ [][/\ \A k \in LogKeys : console'[k] >= console[k]
          /\ (last'.ev = "rasterToRGBA8" /\ ReturnsBeforeChannels(raster))
                => console' = console]_vars

\* Main-thread and worker renders have both warned: two warnings in total.
C8_Witness ==
    /\ AfterMainRenderOver4
    /\ ~ReturnsBeforeChannels(raster)
    /\ console[MainTruncationKey] = 1
    /\ console[WorkerTruncationKey] = 1

\* The pool delivers the head of worker w's channel in this step.
MessageStep(w) ==
    /\ live /\ live'
    /\ outbox[w] # <<>>
    /\ outbox'[w] = Tail(outbox[w])

\* Keys of the warnings the current pool has received so far.
KeysOfPool ==
    { WarnKey(d.code) : d \in { x \in UNION { delivered[v] : v \in Workers } : x.kind = "warn" } }

C10_PacksMatchChannelCount ==
    tex.phase = "done" => Len(tex.packs) = Ceil4(tex.channelCount)

\* The set a conversion has produced is a data-mode set.
DataSet == tex.phase = "done" /\ tex.outMode = "data"

\* Slot k of pack p lies beyond the channels the set reports.
BeyondChannels(p, k) == 4 * (p - 1) + k > tex.channelCount

\* C11: in every data-mode texture set every slot of every pack but the last
\* holds a source band index >= 0, the slots of the last pack that no channel
\* uses hold -1, and what is stored at a -1 slot is zero.
C11_PaddingIsLastMinusOneAndZero ==
    DataSet =>
       \A p \in DOMAIN tex.packs : \A k \in 1..4 :
          /\ p < Len(tex.packs) => tex.packs[p].channels[k] >= 0
          /\ (p = Len(tex.packs) /\ BeyondChannels(p, k)) => tex.packs[p].channels[k] = -1
          /\ tex.packs[p].channels[k] = -1 => tex.packs[p].data[k].num = 0

\* Every channel of the pack is an 8-bit band of the raster.
PackIs8Bit(pack) ==
    \A k \in 1..4 :
       pack.channels[k] >= 0 =>
          (HasBand(tex, pack.channels[k]) /\ BandCtor(tex, pack.channels[k]) = "Uint8Array")

\* C12: in a data-mode set the storage format is chosen pack by pack: a pack
\* is a byte pack exactly when each of its channels is 8-bit, byte storage is
\* preferred and half floats are not forced.
C12_FormatChosenPerPack ==
    DataSet =>
       \A p \in DOMAIN tex.packs :
          (tex.packs[p].format = "RGBA8") <=> (WantsRGBA8(tex.gpu) /\ PackIs8Bit(tex.packs[p]))

\* Slot k of pack p of a data-mode half-float pack built by the worker holds
\* an integer band declaring `bits` bits per sample.
HalfSlotOfBits(p, k, bits) ==
    /\ DataSet /\ tex.path = "worker"
    /\ tex.packs[p].format = "RGBA16F"
    /\ HasBand(tex, tex.packs[p].channels[k])
    /\ BandCtor(tex, tex.packs[p].channels[k]) = "Uint16Array"
    /\ BandBits(tex, tex.packs[p].channels[k]) = bits

\* What is stored lies in [0, 1].
InUnitRange(s) == 0 <= s.num /\ s.num <= s.den

\* C13 as stated: packed with half floats forced, a channel of an integer
\* band declaring 12 bits (maximum 4095) has scale 4095 and what is stored
\* for it lies in [0, 1].
C13_Max4095ScaledToUnit ==
    \A p \in DOMAIN tex.packs : \A k \in 1..4 :
       (HalfSlotOfBits(p, k, 12) /\ tex.gpu = "forceRGBA16F") =>
          (tex.packs[p].scale[k] = 4095 /\ InUnitRange(tex.packs[p].data[k]))

\* C13: packed with half floats forced, a channel of an integer band
\* declaring 12 bits (maximum 4095, within the half-float range) keeps scale 1
\* and stores its samples as they are, in 0..4095; a channel of an integer
\* band declaring 16 bits (maximum 65535, beyond the half-float range) has
\* scale 65535 and what is stored for it lies in [0, 1].
C13_ScaledOnlyBeyondHalfRange ==
    \A p \in DOMAIN tex.packs : \A k \in 1..4 :
       /\ HalfSlotOfBits(p, k, 12) =>
             /\ tex.packs[p].scale[k] = 1
             /\ tex.packs[p].data[k] = Stored(BandSample(tex, tex.packs[p].channels[k]), 1)
             /\ tex.packs[p].data[k].num \in 0..4095
       /\ HalfSlotOfBits(p, k, 16) =>
             /\ tex.packs[p].scale[k] = 65535
             /\ tex.packs[p].data[k].den = 65535
             /\ InUnitRange(tex.packs[p].data[k])

\* A 12-bit band was packed with half floats forced: scale 1, 4095 stored.
C13_Witness ==
    /\ DataSet /\ tex.path = "worker"
    /\ tex.gpu = "forceRGBA16F"
    /\ tex.ctor = "Uint16Array" /\ tex.bits = 12 /\ tex.level = "top"
    /\ Len(tex.packs) >= 1
    /\ tex.packs[1].channels[1] = 0
    /\ tex.packs[1].scale[1] = 1
    /\ tex.packs[1].data[1] = Stored(4095, 1)

(***************************************************************************)
(* The mode of a texture set.                                              *)
(***************************************************************************)
ImageTags == {"RGB", "YCbCr", "CMYK", "CIELab", "Palette"}

GreyTags == {"BlackIsZero", "WhiteIsZero"}

\* The mode by the table: the forced value, else image for the image tags,
\* image for a grey tag when n is 1, data otherwise; n is the count the grey
\* row looks at.
ModeByTable(interpretation, photometric, n) ==
    IF interpretation # "auto" THEN interpretation
    ELSE IF photometric \in ImageTags THEN "image"
         ELSE IF photometric \in GreyTags /\ n = 1 THEN "image"
              ELSE "data"

\* The worker has converted a raster.
WorkerSet == tex.phase = "done" /\ tex.path = "worker"

\* C14 as stated: the mode the worker settles on is given by the configured
\* interpretation, the colour-space tag and the number of bands: the forced
\* value, else image for RGB, YCbCr, CMYK, CIE-Lab and Palette, image for
\* black-is-zero and white-is-zero when the raster has exactly one band, and
\* data for everything else, an absent tag included.
C14_ModeFromInterpretationTagBands ==
    WorkerSet => tex.outMode = ModeByTable(tex.interpretation, tex.photometric, tex.bands)

\* C14: the mode the worker settles on is given by the configured
\* interpretation, the colour-space tag and the raster's samples per pixel
\* (its band count only when it declares none): the forced value, else image
\* for RGB, YCbCr, CMYK, CIE-Lab and Palette, image for black-is-zero and
\* white-is-zero when samples per pixel is exactly 1, and data for everything
\* else, an absent tag included; every input has a mode.
C14_ModeFromInterpretationTagSamples ==
    /\ WorkerSet =>
          tex.outMode = ModeByTable(tex.interpretation, tex.photometric,
                                    IF tex.spp # 0 THEN tex.spp ELSE tex.bands)
    /\ tex.phase = "input" => ResolvedMode(tex) \in {"image", "data"}

\* A grey raster of one band that declares two samples per pixel came out as data.
C14_Witness ==
    /\ WorkerSet
    /\ tex.interpretation = "auto"
    /\ tex.photometric = "BlackIsZero"
    /\ tex.bands = 1 /\ tex.spp = 2
    /\ tex.outMode = "data"

\* C15: when the interpretation is forced to image or to data, the texture
\* set reports that mode, whether the worker or the main-thread fallback
\* built it; an untagged raster of 4 bands forced to image gives one pack
\* with the sources [0, 1, 2, 3].
C15_ForcedModeOnEveryPath ==
    (tex.phase = "done" /\ tex.interpretation \in {"image", "data"}) =>
       /\ tex.outMode = tex.interpretation
       /\ (tex.interpretation = "image" /\ tex.bands = 4 /\ tex.photometric = "none") =>
             (Len(tex.packs) = 1 /\ tex.packs[1].channels = <<0, 1, 2, 3>>)

(***************************************************************************)
(* Properties of the format layers.                                        *)
(***************************************************************************)
SetsNonObject(layer) == layer.present /\ layer.gpu.kind \in {"null", "one", "array"}

\* The middle layer b sets gpu to a scalar, null or an array while the
\* first and the last layer both hold a nested object there.
Shadowed(a, b, c) ==
    /\ IsPlainObject(a.gpu)
    /\ SetsNonObject(b)
    /\ c.present /\ IsPlainObject(c.gpu)

\* C16, as stated: for all layers a, b, c (nested objects, arrays, scalars,
\* null), deepMerge(deepMerge(a, b), b) equals deepMerge(a, b) and
\* deepMerge(deepMerge(a, b), c) equals deepMerge(a, deepMerge(b, c)).
C16_MergeIdempotentAndAssociative ==
    cfg.phase = "merged" =>
        /\ cfg.abb = cfg.ab
        /\ cfg.left = cfg.right

\* C16, amended: deepMerge is idempotent; the later layer wins for every key
\* it sets, nested objects are merged key by key and an array replaces what
\* was there; the two groupings of three layers agree unless the middle
\* layer sets a scalar, null or an array where the first and the last hold
\* a nested object: then the left grouping keeps the last layer's object
\* alone and the right grouping merges the first layer's object into it.
C16_MergeIdempotentAssociativeUnlessShadowed ==
    cfg.phase = "merged" =>
        LET a == cfg.defaults
            b == cfg.hints
            c == cfg.tile
        IN  /\ cfg.abb = cfg.ab
            /\ ~Shadowed(a, b, c) => cfg.left = cfg.right
            /\ Shadowed(a, b, c) =>
                 /\ cfg.left.gpu = c.gpu
                 /\ cfg.right.gpu = Value("object", deepMergeNested(a.gpu.obj, c.gpu.obj))
            /\ b.present /\ b.interpretation # "absent" =>
                 cfg.ab.interpretation = b.interpretation
            /\ b.present /\ IsPlainObject(a.gpu) /\ IsPlainObject(b.gpu) =>
                 \A k \in GpuKeys :
                    cfg.ab.gpu.obj[k] =
                       IF b.gpu.obj[k] # "absent" THEN b.gpu.obj[k] ELSE a.gpu.obj[k]
            /\ b.present /\ b.gpu.kind = "array" => cfg.ab.gpu = b.gpu

\* Three layers merged where the groupings differ: the first layer's
\* preferRGBA8 survives on the right only.
C16_Witness ==
    /\ cfg.phase = "merged"
    /\ Shadowed(cfg.defaults, cfg.hints, cfg.tile)
    /\ cfg.defaults.gpu.obj["preferRGBA8"] = "one"
    /\ cfg.tile.gpu.obj["preferRGBA8"] = "absent"
    /\ cfg.left.gpu.obj["preferRGBA8"] = "absent"
    /\ cfg.right.gpu.obj["preferRGBA8"] = "one"

\* The interpretation of the highest layer that sets it: the tile's format,
\* then the hints' format, then the defaults.
HighestInterpretation(c) ==
    IF c.tile.present /\ c.tile.interpretation # "absent" THEN c.tile.interpretation
    ELSE IF c.hints.present /\ c.hints.interpretation # "absent"
         THEN c.hints.interpretation
         ELSE c.defaults.interpretation

\* C17: the format forwarded to the worker is the three-layer merge
\* defaults <- per-load hints <- per-tile override: every key has the value
\* of the highest layer that sets it, and a key only a lower layer sets is
\* kept.
C17_ForwardedFormatIsThreeLayerMerge ==
    cfg.phase = "resolved" =>
        /\ cfg.formatResolved.interpretation = HighestInterpretation(cfg)
        /\ cfg.formatResolved =
              deepMerge(deepMerge(cfg.defaults, cfg.hints), cfg.tile)

(***************************************************************************)
(* Properties of the half-float conversion.                                *)
(***************************************************************************)
Converted == half.phase = "done"

Finite32 == half.exp < ExpOnes32

\* 65504 is exponent 142 with mantissa 8380416 (0x7FE000) in a float32, and
\* float32 magnitudes are ordered as their exponent, then their mantissa.
Above65504 ==
    Finite32 /\ (half.exp > 142 \/ (half.exp = 142 /\ half.mant > 8380416))

\* 65520 is exponent 142 with mantissa 8384512 (0x7FF000).
AtLeast65520 ==
    Finite32 /\ (half.exp > 142 \/ (half.exp = 142 /\ half.mant >= 8384512))

\* 2^-14 is exponent 113 with mantissa 0.
Below2ToMinus14 == half.exp < 113

SignedInfinity == half.sign * 32768 + InfBits

SignedZero == half.sign * 32768

\* C18, as stated: every finite x with |x| > 65504 converts to the signed
\* Infinity, and every finite x with |x| < 2^-14 to the signed zero.
C18_Above65504IsInfinity ==
    Converted =>
        /\ Above65504 => half.bits = SignedInfinity
        /\ Below2ToMinus14 => half.bits = SignedZero

\* C18, amended: every finite x with |x| >= 65520 converts to the signed
\* Infinity, every x with 65504 < |x| < 65520 rounds to the largest finite
\* half (0x7BFF, 65504) with its sign, and every finite x with |x| < 2^-14
\* converts to the signed zero.
C18_AtLeast65520IsInfinity ==
    Converted =>
        /\ AtLeast65520 => half.bits = SignedInfinity
        /\ Above65504 /\ ~AtLeast65520 => half.bits = half.sign * 32768 + 31743
        /\ Below2ToMinus14 => half.bits = SignedZero

\* A float32 one step above 65504 converted: it stays the largest finite
\* half.
C18_Witness ==
    /\ Converted
    /\ half.sign = 1
    /\ half.exp = 142
    /\ half.mant = 8380417
    /\ half.bits = 32768 + 31743

\* C19: an all-ones exponent gives (sign << 15) | 0x7E00 for a non-zero
\* mantissa and (sign << 15) | 0x7C00 for a zero one; a zero exponent gives
\* (sign << 15); the sign bit of the result is the sign of the input, and
\* the result is within 0..65535.
C19_SpecialValuesAndSign ==
    Converted =>
        /\ half.exp = ExpOnes32 /\ half.mant # 0 =>
              half.bits = half.sign * 32768 + QNaNBits
        /\ half.exp = ExpOnes32 /\ half.mant = 0 => half.bits = SignedInfinity
        /\ half.exp = 0 => half.bits = SignedZero
        /\ half.bits \div 32768 = half.sign
        /\ half.bits \in 0..65535

\* A negative NaN converted to 0xFE00.
C19_Witness ==
    /\ Converted
    /\ half.sign = 1
    /\ half.exp = ExpOnes32
    /\ half.mant # 0
    /\ half.bits = 65024

(***************************************************************************)
(* Properties of the decode options.                                       *)
(***************************************************************************)
\* C20: every decode, in the worker and on the main thread, calls
\* readRasters with interleave false, whatever hints.decode carries.
C20_ReadRastersNeverInterleaved ==
    dec.phase = "done" /\ dec.ok => dec.interleave = "false"

(***************************************************************************)
(* Properties of the shared pool.                                          *)
(***************************************************************************)
NoWorkerYet ==
    /\ ~live
    /\ reqs = <<>>
    /\ \A w \in Workers :
          pending[w] = 0 /\ callbacks[w] = EmptyMap /\ inbox[w] = {} /\ outbox[w] = <<>>

\* C21: no worker exists before the first getWorkerPool(); a pool is
\* constructed only when no pool is live, so at most one is live at any time;
\* getWorkerPool() with a live pool returns that pool; after
\* terminateWorkerPool() the next getWorkerPool() returns a pool constructed
\* by this call, never the terminated one.
C21_PoolLazySharedAndFreshAfterTerminate ==
    /\ [](gen = 0 => NoWorkerYet /\ got = 0)
    /\ [][/\ gen' # gen => ~live /\ live' /\ gen' = gen + 1 /\ got' = gen'
          /\ live /\ live' => gen' = gen
          /\ got' # got => live' /\ got' = gen' /\ gen' > gen
          /\ live => got = gen]_vars

\* The second pool, made after the first was torn down, was handed out by a
\* later getWorkerPool() again.
C21_Witness ==
    /\ gen = 2
    /\ live
    /\ got = 2
    /\ last.ev = "getWorkerPoolShared"

Uncorrelated(w, msg) == msg.kind = "warn" \/ ~MapHas(callbacks[w], msg.id)

Bookkeeping == <<pending, callbacks, reqs>>

C29_FailedPostLeavesBookkeeping ==
    [][RequestStep /\ last'.ev = "requestPostThrew" =>
          /\ reqs'[Len(reqs')].state = "rejected"
          /\ reqs'[Len(reqs')].value = "DataCloneError"
          /\ reqs'[Len(reqs')].settles = 1
          /\ SubSeq(reqs', 1, Len(reqs)) = reqs
          /\ pending' = pending
          /\ callbacks' = callbacks
          /\ inbox' = inbox
          /\ nextId' = nextId + 1]_vars

\* A post failed on a worker that held a request already: every worker
\* still has the one request it had.
C29_Witness ==
    /\ last.ev = "requestPostThrew"
    /\ Len(reqs) = NumWorkers + 1
    /\ \A r \in 1..NumWorkers : reqs[r].state = "pending"
    /\ reqs[NumWorkers + 1].state = "rejected"
    /\ \A w \in Workers : pending[w] = 1

(***************************************************************************)
(* Progress of a pool that is not torn down.                               *)
(***************************************************************************)
Issued(r) == Len(reqs) >= r

Settled(r) == Issued(r) /\ reqs[r].state \in {"resolved", "rejected"}

\* C26: in a pool that is not torn down, where every worker handles each
\* message it receives and every message posted is delivered, every request
\* issued is eventually resolved or rejected, and a settled request keeps
\* its state and its value.
C26_EveryRequestSettlesAndStays ==
    /\ \A r \in 1..MaxLiveReq : Issued(r) ~> Settled(r)
    /\ [][\A r \in 1..MaxLiveReq :
             Settled(r) => /\ reqs'[r].state = reqs[r].state
                           /\ reqs'[r].value = reqs[r].value]_vars

\* A request rejected by the reply of a handler that threw.
C26_Witness ==
    /\ Len(reqs) = 1
    /\ reqs[1].state = "rejected"
    /\ reqs[1].value # "DataCloneError"
    /\ reqs[1].value # "worker error"
    /\ last.ev = "message"

(***************************************************************************)
(* Frame of the main-thread render.                                        *)
(***************************************************************************)
\* C30: rasterToRGBA8 leaves its raster as it was: after any call, also one
\* that asks for more than 4 channels, raster.hints.renderChannels has the
\* length and the elements it had before.
C30_RenderLeavesRenderChannels ==
    [][last'.ev = "rasterToRGBA8" => raster'.rch = raster.rch]_vars

(***************************************************************************)
(* Buffers transferred to a worker.                                        *)
(***************************************************************************)
\* A step that reads raster.bands or puts their buffers in a transfer list.
UsesBands == RequestStep \/ (last'.ev = "rasterToRGBA8" /\ last' # last)

\* C27: no operation on a raster uses band buffers that an earlier operation
\* transferred away: a raster converted through the pool once can be
\* rendered or converted again.
C27_NoUseAfterTransfer ==
    [][UsesBands => ~raster.detached]_vars

(***************************************************************************)
(* Slots of a half-float data pack.                                        *)
(***************************************************************************)
HalfDataPacks ==
    IF DataSet /\ tex.path = "worker"
    THEN {p \in DOMAIN tex.packs : tex.packs[p].format = "RGBA16F"}
    ELSE {}

\* The declared maximum 2^bits - 1 of an integral band, 0 for a float band
\* and for a padding slot.
DeclaredMax(bi) ==
    IF HasBand(tex, bi) /\ BandCtor(tex, bi) # "Float32Array"
    THEN Pow2(BandBits(tex, bi)) - 1
    ELSE 0

ExpectedScale(bi) == IF DeclaredMax(bi) > 65504 THEN DeclaredMax(bi) ELSE 1

SlotValue(bi) == IF HasBand(tex, bi) THEN BandSample(tex, bi) ELSE 0

\* value / scale lies above 65504
AboveHalfRange(bi) ==
    LET v == SlotValue(bi)
        sc == ExpectedScale(bi)
    IN  v \div sc > 65504 \/ (v \div sc = 65504 /\ v % sc > 0)

\* C23, as stated: in every half-float data pack scale[k] is the declared
\* maximum of an integral band when that exceeds 65504 and 1 otherwise,
\* offset[k] is 0, and what is stored is the half float of value / scale[k].
C23_StoredIsValueOverScale ==
    \A p \in HalfDataPacks : \A k \in 1..4 :
       LET bi == tex.packs[p].channels[k]
       IN  /\ tex.packs[p].scale[k] = ExpectedScale(bi)
           /\ tex.packs[p].offset[k] = 0
           /\ tex.packs[p].data[k] = Stored(SlotValue(bi), ExpectedScale(bi))

\* C23, amended: scale and offset as stated; what is stored is the half
\* float of value / scale[k] clamped to the finite half range: 65504 when
\* value / scale[k] exceeds it, as for a float band holding 70000.
C23_StoredIsClampedValueOverScale ==
    \A p \in HalfDataPacks : \A k \in 1..4 :
       LET bi == tex.packs[p].channels[k]
       IN  /\ tex.packs[p].scale[k] = ExpectedScale(bi)
           /\ tex.packs[p].offset[k] = 0
           /\ tex.packs[p].data[k] =
                 IF AboveHalfRange(bi) THEN Stored(65504, 1)
                 ELSE Stored(SlotValue(bi), ExpectedScale(bi))

\* A float band holding 70000 packed next to a padding slot.
C23_Witness ==
    /\ HalfDataPacks # {}
    /\ tex.ctor = "Float32Array" /\ tex.over /\ tex.level = "top"
    /\ \E p \in HalfDataPacks : \E k, n \in 1..4 :
          /\ tex.packs[p].channels[k] = 0
          /\ tex.packs[p].scale[k] = 1
          /\ tex.packs[p].data[k] = Stored(65504, 1)
          /\ tex.packs[p].channels[n] = -1
          /\ tex.packs[p].data[n] = Stored(0, 1)

(***************************************************************************)
(* The buffer of a display render.                                         *)
(***************************************************************************)
\* C24: for every raster and every explicit channel list of length 1 to more
\* than 4, the render returns exactly pixels * 4 bytes, and the alpha byte of
\* every pixel is 255 unless an alpha band or a fourth channel is supplied.
C24_RenderReturnsPixelsTimes4 ==
    rgba.phase = "done" /\ rgba.channels >= 1 =>
        /\ rgba.out.len = rgba.pixels * 4
        /\ rgba.out.alpha = "255" \/ rgba.channels >= 4 \/ rgba.bands >= 4


=============================================================================
